---- MODULE Spec2Model ----
(***************************************************************************)
(* Model of the telemetry correlation core of ampy-observability           *)
(* (go/ampyobs and sdk/go/ampyobs): W3C trace-context propagation over bus *)
(* headers, parent-based ratio sampling, and the batching span pipeline    *)
(* that newTracerProvider configures.  The package functions are thin      *)
(* wrappers over the OpenTelemetry Go SDK; where a wrapper delegates, the   *)
(* operator that models it follows the behaviour of the SDK object the     *)
(* wrapper installs or calls (propagation.TraceContext, ParentBased /      *)
(* TraceIDRatioBased, the batch span processor).                           *)
(***************************************************************************)
EXTENDS Integers, Sequences, FiniteSets, TLC

\* ------------------------------------------------------------------ bounds
\* Spans started over a run (span ids are handed out in start order), and the
\* number of bus hops the history of a context counts before it stops counting.
MaxSpans == 2
MaxHops == 2

\* The export pipeline in small: the capacity of the batch processor's queue
\* (2048 by default), the batch size (512 in newTracerProvider), the export
\* attempts that fit into the exporter's retry time budget, and the spans
\* ended over a run.
QueueCap == 2
BatchSize == 2
MaxAttempts == 2
MaxEnds == 5
MaxLoggers == 4
MaxCtxs == 3

\* ------------------------------------------------------------ identifiers
\* A trace id is 16 bytes and a span id 8 bytes; both are kept as sequences
\* of nibbles (two per byte), most significant first.
TraceIDNibbles == 16 * 2
SpanIDNibbles == 8 * 2

ZeroID(n) == [i \in 1..n |-> 0]

\* The ids the random generator may return in the model.  Nibble 17 is the
\* most significant nibble of bytes 8..15, the bytes the ratio sampler reads.
MkTraceID(hi) == [i \in 1..TraceIDNibbles |-> IF i = 17 THEN hi ELSE IF i = TraceIDNibbles THEN 1 ELSE 0]
TraceIDs == {MkTraceID(0), MkTraceID(12)}
MkSpanID(n) == [i \in 1..SpanIDNibbles |-> IF i = SpanIDNibbles THEN n ELSE 0]

\* trace.SpanContext: ids, the sampled bit of the trace flags, Remote.
EmptySC == [tid |-> ZeroID(TraceIDNibbles), sid |-> ZeroID(SpanIDNibbles), sampled |-> FALSE, remote |-> FALSE]
IsValid(sc) == sc.tid # ZeroID(TraceIDNibbles) /\ sc.sid # ZeroID(SpanIDNibbles)

\* ------------------------------------------------------------ wire format
HexDigits == <<"0", "1", "2", "3", "4", "5", "6", "7", "8", "9", "a", "b", "c", "d", "e", "f">>
LowerHex == {HexDigits[i] : i \in 1..16}
HexChar(n) == HexDigits[n + 1]
HexValues == [c \in LowerHex |-> CHOOSE n \in 0..15 : HexDigits[n + 1] = c]
HexEncode(id) == [i \in 1..Len(id) |-> HexChar(id[i])]

\* hex.Decode of a part that extractPart has accepted (lower-case hex only).
HexDecode(part) == [i \in 1..Len(part) |-> HexValues[part[i]]]

HeaderTraceParent == "traceparent"
EmptyHeaders == [k \in {} |-> <<>>]

\* MapCarrier.Get: the empty string for a missing key.
CarrierGet(headers, k) == IF k \in DOMAIN headers THEN headers[k] ELSE <<>>
CarrierSet(headers, k, v) == [x \in DOMAIN headers \cup {k} |-> IF x = k THEN v ELSE headers[x]]

\* A writer that leaves the flags byte at 00.
FormatTraceparentNoFlags(sc) ==
    <<"0", "0", "-">> \o HexEncode(sc.tid) \o <<"-">> \o HexEncode(sc.sid) \o <<"-", "0", "0">>

\* TraceContext.Inject writes "00-<trace id>-<span id>-<flags>", the flags
\* reduced to the sampled bit.
FormatTraceparent(sc) ==
    <<"0", "0", "-">> \o HexEncode(sc.tid) \o <<"-">> \o HexEncode(sc.sid)
        \o <<"-", "0", IF sc.sampled THEN "1" ELSE "0">>

\* strings.Cut(h, "-"): the text before the first dash and the text after it.
Cut(h) ==
    LET d == {i \in 1..Len(h) : h[i] = "-"}
        first == IF d = {} THEN 0 ELSE CHOOSE i \in d : \A j \in d : i <= j
    IN  IF first = 0 THEN [part |-> h, left |-> <<>>]
        ELSE [part |-> SubSeq(h, 1, first - 1), left |-> SubSeq(h, first + 1, Len(h))]

\* extractPart: the part has exactly n characters, all lower-case hex.
PartOK(part, n) == Len(part) = n /\ \A i \in 1..n : part[i] \in LowerHex

ByteVal(part) == HexValues[part[1]] * 16 + HexValues[part[2]]

\* TraceContext.extract: the span context a traceparent value denotes, or
\* the empty span context.
ParseTraceparent(h) ==
    LET c0 == Cut(h)
        c1 == Cut(c0.left)
        c2 == Cut(c1.left)
        c3 == Cut(c2.left)
        ver == ByteVal(c0.part)
        opts == ByteVal(c3.part)
        sc == [tid |-> HexDecode(c1.part), sid |-> HexDecode(c2.part),
               sampled |-> opts % 2 = 1, remote |-> TRUE]
    IN  IF h = <<>> \/ ~PartOK(c0.part, 2) THEN EmptySC
        ELSE IF ver > 254 THEN EmptySC
        ELSE IF ~PartOK(c1.part, TraceIDNibbles) THEN EmptySC
        ELSE IF ~PartOK(c2.part, SpanIDNibbles) THEN EmptySC
        ELSE IF ~PartOK(c3.part, 2) THEN EmptySC
        ELSE IF ver = 0 /\ (c3.left # <<>> \/ opts > 2) THEN EmptySC
        ELSE IF IsValid(sc) THEN sc ELSE EmptySC

\* The propagator Init installs (TraceContext + Baggage; no baggage is ever
\* set, so Baggage writes and reads nothing) against the no-op propagator a
\* process has before Init.
PropagatorInject(prop, sc, headers) ==
    IF prop = "w3c" /\ IsValid(sc) THEN CarrierSet(headers, HeaderTraceParent, FormatTraceparent(sc))
    ELSE headers

\* An extraction that answers the empty span context, not the parent's, when
\* the headers hold no valid traceparent.
PropagatorExtractEmpty(prop, parent, headers) ==
    LET sc == ParseTraceparent(CarrierGet(headers, HeaderTraceParent))
    IN  IF prop = "w3c" /\ IsValid(sc) THEN sc ELSE EmptySC

PropagatorExtract(prop, parent, headers) ==
    LET sc == ParseTraceparent(CarrierGet(headers, HeaderTraceParent))
    IN  IF prop = "w3c" /\ IsValid(sc) THEN sc ELSE parent

\* What can reach ExtractTrace in place of an injected header map: the map
\* itself, or a malformed version of it.
MalformedKinds == {"truncated", "version_ff", "nonhex", "missing"}
HeaderKinds == {"intact", "future_version"} \cup MalformedKinds

MangleValue(kind, h) ==
    CASE kind = "truncated" -> SubSeq(h, 1, Len(h) - 3)
      [] kind = "version_ff" -> <<"f", "f">> \o SubSeq(h, 3, Len(h))
      [] kind = "future_version" -> <<"0", "1">> \o SubSeq(h, 3, Len(h))
      [] kind = "nonhex" -> [h EXCEPT ![4] = "g"]
      [] OTHER -> h

Mangle(kind, headers) ==
    IF kind = "intact" \/ HeaderTraceParent \notin DOMAIN headers THEN headers
    ELSE IF kind = "missing" THEN EmptyHeaders
    ELSE CarrierSet(headers, HeaderTraceParent, MangleValue(kind, headers[HeaderTraceParent]))

\* ---------------------------------------------------------------- sampler
\* Ratios are counted in quarters: SampleRatio 0.25 is 1, 1.0 is 4.
DefaultRatio == 1

\* The lower-casing of the Sampler and TraceProtocol strings the model uses.
ToLower(s) ==
    CASE s = "RATIO" -> "ratio"
      [] s = "GRPC" -> "grpc"
      [] s = "HTTP" -> "http"
      [] OTHER -> s

\* A selection that clamps a ratio outside [0,1] to the nearer end.
SamplerRatioClamped(cfg) ==
    IF ToLower(cfg.Sampler) = "ratio"
    THEN IF cfg.SampleRatio < 0 THEN 0 ELSE IF cfg.SampleRatio > 4 THEN 4 ELSE cfg.SampleRatio
    ELSE DefaultRatio

\* The root ratio newTracerProvider hands to ParentBased(TraceIDRatioBased(..)).
SamplerRatio(cfg) ==
    IF ToLower(cfg.Sampler) = "ratio" /\ cfg.SampleRatio >= 0 /\ cfg.SampleRatio <= 4
    THEN cfg.SampleRatio
    ELSE DefaultRatio

\* TraceIDRatioBased(q/4).ShouldSample: always for a fraction >= 1; otherwise
\* (bytes 8..15 of the trace id as a big-endian integer, shifted right by
\* one) < fraction * 2^63, which for a fraction in quarters compares the two
\* most significant bits of byte 8 with q.
TraceIDRatioBased(q, tid) ==
    IF q >= 4 THEN TRUE
    ELSE LET f == IF q <= 0 THEN 0 ELSE q
         IN  (tid[17] \div 4) < f

\* Samplers other than the one configured: the ratio sampler on its own; a
\* parent-based sampler that follows local parents only; one that hands
\* spans with a sampled remote parent to the root sampler.
ParentBasedRootOnly(q, psc, tid) == TraceIDRatioBased(q, tid)

ParentBasedLocalOnly(q, psc, tid) ==
    IF IsValid(psc) /\ ~psc.remote THEN psc.sampled ELSE TraceIDRatioBased(q, tid)

ParentBasedRemoteRoot(q, psc, tid) ==
    IF ~IsValid(psc) THEN TraceIDRatioBased(q, tid)
    ELSE IF psc.remote /\ psc.sampled THEN TraceIDRatioBased(q, tid)
    ELSE psc.sampled

\* ParentBased(root): a valid parent span context decides, remote or local;
\* the root sampler decides only when there is none.
ParentBased(q, psc, tid) ==
    IF IsValid(psc) THEN psc.sampled ELSE TraceIDRatioBased(q, tid)

\* --------------------------------------------------------------- endpoint
\* Values of Config.CollectorEndpoint: empty, host:port as in the README,
\* :port, an IP address with port, a bare host, and URLs with scheme as in
\* the simple_test example; Bytes gives the characters of each.
EndpointArgs ==
    {"", "localhost:4317", ":4317", "127.0.0.1:4317",
     "collector", "http://localhost:4317", "https://collector:4317"}
Bytes ==
    [s \in EndpointArgs |->
        CASE s = "" -> <<>>
          [] s = "localhost:4317" -> <<"l", "o", "c", "a", "l", "h", "o", "s", "t", ":", "4", "3", "1", "7">>
          [] s = ":4317" -> <<":", "4", "3", "1", "7">>
          [] s = "127.0.0.1:4317" -> <<"1", "2", "7", ".", "0", ".", "0", ".", "1", ":", "4", "3", "1", "7">>
          [] s = "collector" -> <<"c", "o", "l", "l", "e", "c", "t", "o", "r">>
          [] s = "http://localhost:4317" -> <<"h", "t", "t", "p", ":", "/", "/", "l", "o", "c", "a", "l", "h", "o", "s", "t", ":", "4", "3", "1", "7">>
          [] s = "https://collector:4317" -> <<"h", "t", "t", "p", "s", ":", "/", "/", "c", "o", "l", "l", "e", "c", "t", "o", "r", ":", "4", "3", "1", "7">>]

Slice(str, a, b) == [i \in 1..(IF b >= a THEN b - a + 1 ELSE 0) |-> str[a + i - 1]]
IndexOf(str, c) ==
    LET at == {i \in 1..Len(str) : str[i] = c}
    IN  IF at = {} THEN 0 ELSE CHOOSE i \in at : \A j \in at : i <= j
HasPrefix(str, pre) == Len(str) >= Len(pre) /\ Slice(str, 1, Len(pre)) = pre

\* getScheme of net/url: letters, and after the first character digits and
\* + - ., up to a colon, are the scheme; a colon in first place is an error;
\* any other character first means there is no scheme.
getScheme(raw) ==
    LET Letters ==
            {"a", "b", "c", "d", "e", "f", "g", "h", "i", "j", "k", "l", "m",
             "n", "o", "p", "q", "r", "s", "t", "u", "v", "w", "x", "y", "z"}
        SchemeMarks == {"0", "1", "2", "3", "4", "5", "6", "7", "8", "9", "+", "-", "."}
        stops == {i \in 1..Len(raw) :
                     ~(raw[i] \in Letters \/ (raw[i] \in SchemeMarks /\ i > 1))}
        i == IF stops = {} THEN 0 ELSE CHOOSE k \in stops : \A j \in stops : k <= j
    IN  IF i = 0 \/ raw[i] # ":" THEN [scheme |-> <<>>, rest |-> raw, err |-> FALSE]
        ELSE IF i = 1 THEN [scheme |-> <<>>, rest |-> <<>>, err |-> TRUE]
        ELSE [scheme |-> Slice(raw, 1, i - 1), rest |-> Slice(raw, i + 1, Len(raw)), err |-> FALSE]

\* url.Parse, for inputs without query, fragment and user info: what is left
\* after a scheme and does not start with a slash is opaque (no host);
\* without a scheme, a colon in the first path segment is an error; after
\* "//" the host is what stands before the next slash.
urlParse(raw) ==
    LET g == getScheme(raw)
        rest == g.rest
        slash == IndexOf(rest, "/")
        segment == IF slash = 0 THEN rest ELSE Slice(rest, 1, slash - 1)
        authority == Slice(rest, 3, Len(rest))
        cut == IndexOf(authority, "/")
    IN  IF g.err THEN [err |-> TRUE, Scheme |-> <<>>, Host |-> <<>>]
        ELSE IF ~HasPrefix(rest, <<"/">>) /\ g.scheme # <<>>
        THEN [err |-> FALSE, Scheme |-> g.scheme, Host |-> <<>>]
        ELSE IF ~HasPrefix(rest, <<"/">>) /\ IndexOf(segment, ":") # 0
        THEN [err |-> TRUE, Scheme |-> <<>>, Host |-> <<>>]
        ELSE IF HasPrefix(rest, <<"/", "/">>) /\ (g.scheme # <<>> \/ ~HasPrefix(rest, <<"/", "/", "/">>))
        THEN [err |-> FALSE, Scheme |-> g.scheme,
              Host |-> IF cut = 0 THEN authority ELSE Slice(authority, 1, cut - 1)]
        ELSE [err |-> FALSE, Scheme |-> g.scheme, Host |-> <<>>]

\* net.SplitHostPort, for inputs without brackets: host and port around the
\* only colon; both empty (the error is discarded) when there is no colon or
\* more than one.
SplitHostPort(hostport) ==
    LET colons == {i \in 1..Len(hostport) : hostport[i] = ":"}
        i == CHOOSE k \in colons : TRUE
    IN  IF Cardinality(colons) # 1 THEN [host |-> <<>>, port |-> <<>>]
        ELSE [host |-> Slice(hostport, 1, i - 1), port |-> Slice(hostport, i + 1, Len(hostport))]

\* parseEndpoint (obs.go).
parseEndpoint(raw) ==
    LET u == urlParse(raw)
        hp == SplitHostPort(raw)
    IN  IF raw = <<>> THEN [hostport |-> Bytes["localhost:4317"], insecure |-> TRUE]
        ELSE IF u.err \/ u.Scheme = <<>>
        THEN IF hp.port = <<>> THEN [hostport |-> raw, insecure |-> TRUE]
             ELSE IF hp.host = <<>>
             THEN [hostport |-> <<"l", "o", "c", "a", "l", "h", "o", "s", "t", ":">> \o hp.port,
                   insecure |-> TRUE]
             ELSE [hostport |-> raw, insecure |-> TRUE]
        ELSE [hostport |-> u.Host, insecure |-> u.Scheme = <<"h", "t", "t", "p">>]

\* ------------------------------------------------------------------ state
\* The package keeps its state in package-level variables of one process.
\* Processes share nothing but the bus, so the model follows one process at a
\* time: NextProcess hands over to another process, which starts from the
\* package's initial state and sees only the header map left on the bus.
VARIABLES
    propagator,      \* the global text-map propagator ("noop" before Init)
    tracerProvider,  \* NoProvider, or the provider Init installed
    cur,             \* the context the caller holds: its span context and span
    nspans,          \* spans the SDK tracers have started so far
    bus              \* the header map InjectTrace wrote last, or NoMsg

\* The batch span processor newTracerProvider installs with WithBatcher, its
\* worker goroutine, the exporter behind it, and a Shutdown call.
VARIABLES
    queue,           \* spans in the processor's queue (a channel of QueueCap)
    batch,           \* spans in the worker's batch
    dropped,         \* the processor's drop counter
    stopped,         \* set by Shutdown: OnEnd discards, the worker drains
    worker,          \* "run", "export", "drain", "done"
    resume,          \* where the worker goes on after the export in progress
    attempts,        \* failed attempts of the export in progress
    shutdown,        \* the Shutdown call: where it is, whether its ctx has a
                     \* deadline, whether the meter provider's shutdown failed
    shutdownErr,     \* what Shutdown returned: "nil" or "deadline"
    hist             \* history of the run, never read by an operation

\* The rest of the package state of a process, and what it has put out.
VARIABLES
    globalCfg,       \* the Config of the last Init call
    instruments,     \* the six instrument variables: "nil" until initMetrics
                     \* assigns them, then "live", "closed" once their meter
                     \* provider is shut down
    points,          \* the metric points recorded: metric name and label set
    registry,        \* the Prometheus registry (sdk): label keys by metric name
    call,            \* the last Init, metric or log call and how it ended
    logRec,          \* the last log record written
    exporter         \* where the span exporter sends: host:port, and whether
                     \* without TLS

\* The objects of a process that uses sdk/go/ampyobs.
VARIABLES
    heap,            \* the backing arrays of the loggers' []zap.Field slices
    loggers,         \* the zapLogger objects made so far: the meta slice, and
                     \* for the record the logger With was called on and the
                     \* fields it was given
    ctxs,            \* the contexts made with context.WithValue: parent, key,
                     \* value (0 is context.Background())
    written,         \* the last record a zapLogger handed to zap
    served           \* the last request the HTTP middleware served

traceVars == <<propagator, tracerProvider, cur, nspans, bus>>
sdkVars == <<heap, loggers, ctxs, written, served>>
appVars == <<globalCfg, instruments, points, registry, call, logRec, exporter, sdkVars>>
exportVars ==
    <<queue, batch, dropped, stopped, worker, resume, attempts, shutdown, shutdownErr, hist>>

\* hist: spans ended, sampled spans offered to the queue, offers that found
\* the queue full, spans the worker took, spans acknowledged by the
\* collector, batches given up, errors passed to otel.Handle, spans lost in
\* given-up batches, spans still buffered when Shutdown returned at its
\* deadline, spans ended after Shutdown.
NoHistory ==
    [ended |-> 0, offered |-> 0, fullArrivals |-> 0, taken |-> 0, exported |-> 0,
     failedBatches |-> 0, handled |-> 0, lost |-> 0, atDeadline |-> 0, late |-> 0]

PipelineIdle ==
    /\ queue = 0 /\ batch = 0 /\ dropped = 0 /\ stopped = FALSE
    /\ worker = "run" /\ resume = "run" /\ attempts = 0
    /\ shutdown = [pc |-> "none", deadline |-> FALSE, meterErr |-> FALSE] /\ shutdownErr = "nil"
    /\ hist = NoHistory

\* tracerProvider == nil, and a provider with its root ratio.
NoProvider == [installed |-> FALSE, ratio |-> 0]
Provider(q) == [installed |-> TRUE, ratio |-> q]

\* History carried beside a context, never read by an operation: the root
\* of its causal chain (trace id, decision, the ratio it was decided under),
\* the bus hops since the root, and the call that returned the context.
NoOrigin == [tid |-> ZeroID(TraceIDNibbles), sampled |-> FALSE, ratio |-> 0, hops |-> 0]
NoVia ==
    [op |-> "none", prop |-> "noop", kind |-> "intact", src |-> EmptySC, srcName |-> "",
     arg |-> EmptySC, psc |-> EmptySC]
Hop(origin) == [origin EXCEPT !.hops = IF @ < MaxHops THEN @ + 1 ELSE @]

\* A context: the span context it carries and, when an SDK tracer started
\* its span, the span's name, parent span id and links (name "" otherwise).
Background ==
    [sc |-> EmptySC, name |-> "", parent |-> ZeroID(SpanIDNibbles), links |-> <<>>,
     origin |-> NoOrigin, via |-> NoVia]

NoMsg == [sent |-> FALSE, hdr |-> EmptyHeaders, sc |-> EmptySC, name |-> "", origin |-> NoOrigin]

\* Names handed to StartSpan by callers; order rejections and dead-letter
\* events are the classes the README wants always sampled.
SpanNames == {"oms.reject"}
OverrideNames == {"oms.reject", "bus.dlq"}

\* Config, without the fields that only name the service: the zero value,
\* and the configuration of the simple_test example.
ZeroConfig ==
    [CollectorEndpoint |-> "", EnableMetrics |-> FALSE, EnableTracing |-> FALSE,
     TraceProtocol |-> "", Sampler |-> "", SampleRatio |-> 0]
ExampleConfig ==
    [CollectorEndpoint |-> "http://localhost:4317", EnableMetrics |-> FALSE,
     EnableTracing |-> TRUE, TraceProtocol |-> "", Sampler |-> "ratio", SampleRatio |-> 4]

TraceConfigs ==
    {ZeroConfig, ExampleConfig,
     [ExampleConfig EXCEPT !.TraceProtocol = "GRPC", !.SampleRatio = 0]}

\* A process that has not called into the package yet.
NoLabels == [k \in {} |-> ""]
NoCall == [op |-> "", metric |-> "", labels |-> NoLabels, res |-> "ok"]
NoRecord == [logger |-> "", sc |-> EmptySC, ids |-> [k \in {} |-> <<>>], kv |-> NoLabels]
NoExporter == [hostport |-> <<>>, insecure |-> FALSE]

\* zap.Field: the key, the type and the value in the member of its type.
\* The String of a trace or span id is kept as the sequence of its hex
\* digits, in Hex.
zapString(key, val) == [Key |-> key, Type |-> "String", Integer |-> 0, String |-> val, Hex |-> <<>>]
zapHexString(key, id) ==
    [Key |-> key, Type |-> "String", Integer |-> 0, String |-> "", Hex |-> HexEncode(id)]
F(key, val) == [Key |-> key, Type |-> "Int64", Integer |-> val, String |-> "", Hex |-> <<>>]

\* DomainContext and its zero value.
DomainFields == <<"RunID", "AsOfISO", "UniverseID", "MessageID", "ClientOrderID", "Symbol", "MIC">>
ZeroDomainContext == [f \in {DomainFields[i] : i \in 1..Len(DomainFields)} |-> ""]

\* A process that has no Handle of sdk/go/ampyobs.
NoWritten == [logger |-> 0, ctx |-> 0, fields |-> <<>>, kv |-> <<>>]
NoServed == [hdr |-> EmptyHeaders, codes |-> <<>>, extracted |-> 0, ctx |-> 0]
SdkIdle ==
    /\ heap = <<>> /\ loggers = <<>> /\ ctxs = <<>>
    /\ written = NoWritten /\ served = NoServed

AppIdle ==
    /\ globalCfg = ZeroConfig /\ instruments = "nil"
    /\ points = {} /\ registry = [n \in {} |-> {}] /\ call = NoCall /\ logRec = NoRecord
    /\ exporter = NoExporter
    /\ SdkIdle

\* What a call of Init can meet: no error, one from the resource merge, one
\* from newTracerProvider, one from newMeterProvider (initMetrics builds
\* instruments of fixed, valid names, which the meter does not refuse).
InitErrors == {"none", "resource", "provider", "meter"}

\* ------------------------------------------------------------- operations
\* Init (obs.go): globalCfg is assigned first.  The resource merge may fail
\* before anything is installed; then the propagator is installed; then,
\* with EnableTracing, the tracer provider, unless newTracerProvider returns
\* an error (an unsupported protocol is always one), which ends Init; then,
\* with EnableMetrics, the meter provider and the instruments of
\* initMetrics, unless newMeterProvider returns an error.  InitResult is the
\* error returned.  A tracer provider comes with a batch processor of its
\* own, idle and not stopped; the processor of a provider that Init replaces
\* is left behind.
ProtocolAny(cfg) == TRUE

ProtocolOK(cfg) == ToLower(cfg.TraceProtocol) \in {"", "grpc", "http"}

InitResult(cfg, resErr, provErr, meterErr) ==
    IF resErr THEN "resource"
    ELSE IF cfg.EnableTracing /\ ~ProtocolOK(cfg) THEN "unsupported trace protocol"
    ELSE IF cfg.EnableTracing /\ provErr THEN "exporter"
    ELSE IF cfg.EnableMetrics /\ meterErr THEN "meter"
    ELSE "nil"

\* An Init that leaves everything as it was when it returns an error.
InitAtomic(cfg, resErr, provErr, meterErr) ==
    LET res == InitResult(cfg, resErr, provErr, meterErr)
    IN  /\ call' = [NoCall EXCEPT !.op = "Init", !.res = res]
        /\ globalCfg' = IF res = "nil" THEN cfg ELSE globalCfg
        /\ propagator' = IF res = "nil" THEN "w3c" ELSE propagator
        /\ tracerProvider' =
               IF res = "nil" /\ cfg.EnableTracing THEN Provider(SamplerRatio(cfg))
               ELSE tracerProvider
        /\ exporter' =
               IF res = "nil" /\ cfg.EnableTracing THEN parseEndpoint(Bytes[cfg.CollectorEndpoint])
               ELSE exporter
        /\ instruments' = IF res = "nil" /\ cfg.EnableMetrics THEN "live" ELSE instruments
        /\ IF res = "nil" /\ cfg.EnableTracing
           THEN /\ queue' = 0 /\ batch' = 0 /\ dropped' = 0 /\ stopped' = FALSE
                /\ worker' = "run" /\ resume' = "run" /\ attempts' = 0
           ELSE UNCHANGED <<queue, batch, dropped, stopped, worker, resume, attempts>>
        /\ UNCHANGED <<cur, nspans, bus>>
        /\ UNCHANGED <<points, registry, logRec, sdkVars>>
        /\ UNCHANGED <<shutdown, shutdownErr, hist>>

Init(cfg, resErr, provErr, meterErr) ==
    LET tracingFails == cfg.EnableTracing /\ (~ProtocolOK(cfg) \/ provErr)
        installs == ~resErr /\ cfg.EnableTracing /\ ~tracingFails
    IN  /\ globalCfg' = cfg
        /\ call' = [NoCall EXCEPT !.op = "Init", !.res = InitResult(cfg, resErr, provErr, meterErr)]
        /\ propagator' = IF resErr THEN propagator ELSE "w3c"
        /\ tracerProvider' =
               IF installs
               THEN Provider(SamplerRatio(cfg))
               ELSE tracerProvider
        /\ exporter' =
               IF installs
               THEN parseEndpoint(Bytes[cfg.CollectorEndpoint])
               ELSE exporter
        /\ instruments' =
               IF ~resErr /\ ~tracingFails /\ cfg.EnableMetrics /\ ~meterErr
               THEN "live"
               ELSE instruments
        /\ IF installs
           THEN /\ queue' = 0 /\ batch' = 0 /\ dropped' = 0 /\ stopped' = FALSE
                /\ worker' = "run" /\ resume' = "run" /\ attempts' = 0
           ELSE UNCHANGED <<queue, batch, dropped, stopped, worker, resume, attempts>>
        /\ UNCHANGED <<cur, nspans, bus>>
        /\ UNCHANGED <<points, registry, logRec, sdkVars>>
        /\ UNCHANGED <<shutdown, shutdownErr, hist>>

\* A tracer that gives every span a trace id of its own.
NewSpanContextOwnTrace(psc, newTid) ==
    [tid |-> newTid, sid |-> MkSpanID(nspans + 1),
     sampled |-> ParentBased(tracerProvider.ratio, psc, newTid), remote |-> FALSE]

\* A tracer whose root decision under a ratio strictly between 0 and 1 goes
\* by the number of spans the process has started, not by the trace id.
NewSpanContextByCount(psc, newTid) ==
    LET tid == IF psc.tid # ZeroID(TraceIDNibbles) THEN psc.tid ELSE newTid
        q == tracerProvider.ratio
    IN  [tid |-> tid, sid |-> MkSpanID(nspans + 1),
         sampled |-> IF IsValid(psc) THEN psc.sampled
                     ELSE q >= 4 \/ (q > 0 /\ nspans % 2 = 0),
         remote |-> FALSE]

\* tracer.newSpan of the SDK: the trace id of a valid parent or a new one, a
\* new span id, the sampler's decision in the flags.
NewSpanContext(psc, newTid) ==
    LET tid == IF psc.tid # ZeroID(TraceIDNibbles) THEN psc.tid ELSE newTid
    IN  [tid |-> tid, sid |-> MkSpanID(nspans + 1),
         sampled |-> ParentBased(tracerProvider.ratio, psc, tid), remote |-> FALSE]

\* A span that keeps none of the links it was started with.
SpanLinksNone(sampled, links) == <<>>

\* The links of the span tracer.Start returns for trace.WithLinks(links): a
\* span that is not sampled is a non-recording span and keeps none; a
\* recording span keeps every link but one with an invalid span context and
\* no attributes.
SpanLinks(sampled, links) ==
    IF sampled THEN SelectSeq(links, LAMBDA l : IsValid(l)) ELSE <<>>

\* otel.Tracer("ampyobs").Start(ctx, ...): the SDK tracer when a provider is
\* installed, otherwise the no-op tracer, whose span repeats the parent's
\* span context.
TracerStart(pctx, name, newTid, links, via) ==
    /\ nspans < MaxSpans
    /\ IF tracerProvider.installed
       THEN LET sc == NewSpanContext(pctx.sc, newTid)
            IN  /\ nspans' = nspans + 1
                /\ cur' = [sc |-> sc, name |-> name, parent |-> pctx.sc.sid,
                           links |-> SpanLinks(sc.sampled, links),
                           origin |-> IF IsValid(pctx.sc) THEN pctx.origin
                                      ELSE [tid |-> sc.tid, sampled |-> sc.sampled,
                                            ratio |-> tracerProvider.ratio, hops |-> 0],
                           via |-> via]
       ELSE /\ nspans' = nspans
            /\ cur' = [Background EXCEPT !.sc = pctx.sc, !.origin = pctx.origin, !.via = via]
    /\ UNCHANGED <<propagator, tracerProvider, bus>>
    /\ UNCHANGED <<exportVars, appVars>>

StartSpan(parent, name, newTid) ==
    TracerStart(parent, name, newTid, <<>>,
                [NoVia EXCEPT !.op = "start", !.prop = propagator, !.arg = parent.sc, !.psc = parent.sc])

StartBusPublishSpan(parent, newTid) ==
    TracerStart(parent, "bus.publish", newTid, <<>>,
                [NoVia EXCEPT !.op = "start", !.prop = propagator, !.arg = parent.sc, !.psc = parent.sc])

InjectTrace ==
    /\ bus' = [sent |-> TRUE, hdr |-> PropagatorInject(propagator, cur.sc, EmptyHeaders),
               sc |-> cur.sc, name |-> cur.name, origin |-> cur.origin]
    /\ UNCHANGED <<propagator, tracerProvider, cur, nspans>>
    /\ UNCHANGED <<exportVars, appVars>>

\* The context ExtractTrace returns: the parent itself unless the
\* propagator found a span context in the headers.
Extracted(parent, m, kind) ==
    LET sc == PropagatorExtract(propagator, parent.sc, Mangle(kind, m.hdr))
    IN  IF sc = parent.sc THEN parent
        ELSE [Background EXCEPT !.sc = sc, !.origin = Hop(m.origin)]

ExtractTrace(parent, m, kind) ==
    /\ m.sent
    /\ cur' = [Extracted(parent, m, kind) EXCEPT
                  !.via = [op |-> "extract", prop |-> propagator, kind |-> kind, src |-> m.sc, srcName |-> m.name,
                           arg |-> parent.sc, psc |-> parent.sc]]
    /\ UNCHANGED <<propagator, tracerProvider, nspans, bus>>
    /\ UNCHANGED <<exportVars, appVars>>

\* StartBusConsumeSpan: extract, make a link of the extracted context's span
\* context (trace.LinkFromContext), start bus.consume in that context.
StartBusConsumeSpan(parent, m, kind, newTid) ==
    /\ m.sent
    /\ LET remoteCtx == Extracted(parent, m, kind)
       IN  TracerStart(remoteCtx, "bus.consume", newTid, <<remoteCtx.sc>>,
                       [op |-> "consume", prop |-> propagator, kind |-> kind, src |-> m.sc, srcName |-> m.name,
                        arg |-> parent.sc, psc |-> remoteCtx.sc])

\* The bus hands over to another process: package state as at program start.
NextProcess ==
    /\ propagator' = "noop"
    /\ tracerProvider' = NoProvider
    /\ cur' = Background
    /\ globalCfg' = ZeroConfig /\ instruments' = "nil"
    /\ registry' = [n \in {} |-> {}] /\ call' = NoCall /\ logRec' = NoRecord
    /\ exporter' = NoExporter
    /\ UNCHANGED <<nspans, bus, points, sdkVars>>
    /\ UNCHANGED exportVars

TraceInit ==
    /\ propagator = "noop"
    /\ tracerProvider = NoProvider
    /\ cur = Background
    /\ nspans = 0
    /\ bus = NoMsg
    /\ PipelineIdle
    /\ AppIdle

Parents == {cur, Background}

\* One step of a process, its configurations drawn from cfgs and the headers
\* that reach it being of the kinds in kinds; its Init calls end without
\* error, or with newTracerProvider failing after the propagator was
\* installed.
TraceStep(cfgs, kinds) ==
    \/ \E cfg \in cfgs, err \in {"none", "provider"} :
           Init(cfg, err = "resource", err = "provider", err = "meter")
    \/ \E name \in SpanNames, newTid \in TraceIDs, parent \in Parents : StartSpan(parent, name, newTid)
    \/ \E newTid \in TraceIDs, parent \in Parents : StartBusPublishSpan(parent, newTid)
    \/ InjectTrace
    \/ \E kind \in kinds, parent \in Parents : ExtractTrace(parent, bus, kind)
    \/ \E kind \in kinds, newTid \in TraceIDs, parent \in Parents :
           StartBusConsumeSpan(parent, bus, kind, newTid)
    \/ NextProcess

\* Processes of every configuration exchanging headers that arrive as they
\* were written or not at all ...
TraceNext == TraceStep(TraceConfigs, {"intact", "missing"})

\* ... and processes configured like the example, meeting every kind of
\* header.
HeaderNext == TraceStep({ExampleConfig}, HeaderKinds)

vars == <<traceVars, exportVars, appVars>>

Spec == TraceInit /\ [][TraceNext]_vars

SpecHeaders == TraceInit /\ [][HeaderNext]_vars

\* Processes whose roots are decided by the trace id, under the default 0.25
\* of Sampler "parent" or under 0.5, beside processes with ratio 0.
RatioConfigs ==
    {[ExampleConfig EXCEPT !.Sampler = "parent"], [ExampleConfig EXCEPT !.SampleRatio = 2],
     [ExampleConfig EXCEPT !.SampleRatio = 0]}
SamplerNext == TraceStep(RatioConfigs, {"intact"})
SpecSampler == TraceInit /\ [][SamplerNext]_vars

\* Every way of filling Sampler and SampleRatio: the ratio sampler in two
\* spellings, "parent", the empty string, a name the switch does not know;
\* ratios below, inside and above [0,1].
SamplerConfigs ==
    {[ExampleConfig EXCEPT !.Sampler = smp, !.SampleRatio = q] :
        smp \in {"ratio", "RATIO", "parent", "", "always_on"}, q \in {0 - 4, 0, 2, 4, 8}}
ConfigNext ==
    \/ \E cfg \in SamplerConfigs, err \in InitErrors :
           Init(cfg, err = "resource", err = "provider", err = "meter")
    \/ \E parent \in Parents, name \in SpanNames, newTid \in TraceIDs :
           StartSpan(parent, name, newTid)
    \/ NextProcess
SpecConfig == TraceInit /\ [][ConfigNext]_vars

\* Every way of filling CollectorEndpoint.
EndpointConfigs == {[ExampleConfig EXCEPT !.CollectorEndpoint = raw] : raw \in EndpointArgs}
EndpointNext ==
    \/ \E cfg \in EndpointConfigs, err \in InitErrors :
           Init(cfg, err = "resource", err = "provider", err = "meter")
    \/ \E parent \in Parents, name \in SpanNames, newTid \in TraceIDs :
           StartSpan(parent, name, newTid)
    \/ NextProcess
SpecEndpoint == TraceInit /\ [][EndpointNext]_vars

\* -------------------------------------------------------- export pipeline
\* A processor that queues a span whatever the queue holds.
EnqueueDropUnbounded(q, d) == [queue |-> q + 1, dropped |-> d]

\* A processor that drops on a full queue without counting.
EnqueueDropSilent(q, d) ==
    IF q < QueueCap THEN [queue |-> q + 1, dropped |-> d] ELSE [queue |-> q, dropped |-> d]

\* enqueueDrop of the batch processor (WithBlocking is not set): a send on
\* the queue channel with a default branch that counts the drop.
EnqueueDrop(q, d) ==
    IF q < QueueCap THEN [queue |-> q + 1, dropped |-> d] ELSE [queue |-> q, dropped |-> d + 1]

\* The counters the pipeline keeps, by name; a name it does not keep reads 0.
Counters == [name \in {"dropped"} |-> dropped]
CounterOf(name) == IF name \in DOMAIN Counters THEN Counters[name] ELSE 0

\* span.End() -> OnEnd: nothing after Shutdown, nothing for a span that is
\* not sampled, otherwise enqueueDrop.  It never waits.
SpanEnd(sampled) ==
    /\ IF stopped \/ ~sampled
       THEN UNCHANGED <<queue, dropped>>
       ELSE /\ queue' = EnqueueDrop(queue, dropped).queue
            /\ dropped' = EnqueueDrop(queue, dropped).dropped
    /\ hist' = [hist EXCEPT
                   !.ended = @ + 1,
                   !.late = IF stopped /\ sampled THEN @ + 1 ELSE @,
                   !.offered = IF ~stopped /\ sampled THEN @ + 1 ELSE @,
                   !.fullArrivals = IF ~stopped /\ sampled /\ queue = QueueCap THEN @ + 1 ELSE @]
    /\ UNCHANGED <<batch, stopped, worker, resume, attempts, shutdown, shutdownErr>>

OnEnd(sampled) ==
    /\ hist.ended < MaxEnds
    /\ SpanEnd(sampled)
    /\ UNCHANGED <<traceVars, appVars>>

\* A worker that exports only once the batch has grown past BatchSize.
TakeLate(back) ==
    /\ queue > 0
    /\ queue' = queue - 1
    /\ batch' = batch + 1
    /\ hist' = [hist EXCEPT !.taken = @ + 1]
    /\ IF batch + 1 > BatchSize
       THEN worker' = "export" /\ resume' = back /\ attempts' = 0
       ELSE UNCHANGED <<worker, resume, attempts>>
    /\ UNCHANGED <<dropped, stopped, shutdown, shutdownErr>>
    /\ UNCHANGED <<traceVars, appVars>>

\* The worker takes a span from the queue into the batch (processQueue and
\* drainQueue alike) and exports when the batch has reached BatchSize.
Take(back) ==
    /\ queue > 0
    /\ queue' = queue - 1
    /\ batch' = batch + 1
    /\ hist' = [hist EXCEPT !.taken = @ + 1]
    /\ IF batch + 1 >= BatchSize
       THEN worker' = "export" /\ resume' = back /\ attempts' = 0
       ELSE UNCHANGED <<worker, resume, attempts>>
    /\ UNCHANGED <<dropped, stopped, shutdown, shutdownErr>>
    /\ UNCHANGED <<traceVars, appVars>>

\* processQueue: select over the stop channel, the batch timer and the queue.
WorkerReceive == worker = "run" /\ Take("run")

\* The batch timer (5 s) fires; exportSpans does nothing on an empty batch.
WorkerTimer ==
    /\ worker = "run" /\ batch > 0
    /\ worker' = "export" /\ resume' = "run" /\ attempts' = 0
    /\ UNCHANGED <<queue, batch, dropped, stopped, shutdown, shutdownErr, hist>>
    /\ UNCHANGED <<traceVars, appVars>>

WorkerStop ==
    /\ worker = "run" /\ stopped
    /\ worker' = "drain"
    /\ UNCHANGED <<queue, batch, dropped, stopped, resume, attempts, shutdown, shutdownErr, hist>>
    /\ UNCHANGED <<traceVars, appVars>>

\* drainQueue: take what is queued, then a final export.
DrainReceive == worker = "drain" /\ Take("drain")

DrainFinal ==
    /\ worker = "drain" /\ queue = 0
    /\ IF batch > 0
       THEN worker' = "export" /\ resume' = "done" /\ attempts' = 0
       ELSE worker' = "done" /\ UNCHANGED <<resume, attempts>>
    /\ UNCHANGED <<queue, batch, dropped, stopped, shutdown, shutdownErr, hist>>
    /\ UNCHANGED <<traceVars, appVars>>

\* exportSpans -> ExportSpans of the OTLP exporter: the collector
\* acknowledges the batch ...
ExportAck ==
    /\ worker = "export"
    /\ hist' = [hist EXCEPT !.exported = @ + batch]
    /\ batch' = 0 /\ worker' = resume /\ attempts' = 0
    /\ UNCHANGED <<queue, dropped, stopped, resume, shutdown, shutdownErr>>
    /\ UNCHANGED <<traceVars, appVars>>

\* An exporter that keeps its count of failed attempts from one batch to the
\* next.
ExportFailCarry(retryable) ==
    /\ worker = "export"
    /\ IF retryable /\ attempts + 1 < MaxAttempts
       THEN /\ attempts' = attempts + 1
            /\ UNCHANGED <<batch, worker, hist>>
       ELSE /\ hist' = [hist EXCEPT !.failedBatches = @ + 1, !.handled = @ + 1,
                                      !.lost = @ + batch]
            /\ batch' = 0 /\ worker' = resume /\ attempts' = attempts
    /\ UNCHANGED <<queue, dropped, stopped, resume, shutdown, shutdownErr>>
    /\ UNCHANGED <<traceVars, appVars>>

\* ... or an attempt fails.  The exporter retries a retryable failure while
\* its time budget lasts; then exportSpans clears the batch and the worker
\* passes the error to otel.Handle and goes on.
ExportFail(retryable) ==
    /\ worker = "export"
    /\ IF retryable /\ attempts + 1 < MaxAttempts
       THEN /\ attempts' = attempts + 1
            /\ UNCHANGED <<batch, worker, hist>>
       ELSE /\ hist' = [hist EXCEPT !.failedBatches = @ + 1, !.handled = @ + 1,
                                      !.lost = @ + batch]
            /\ batch' = 0 /\ worker' = resume /\ attempts' = 0
    /\ UNCHANGED <<queue, dropped, stopped, resume, shutdown, shutdownErr>>
    /\ UNCHANGED <<traceVars, appVars>>

\* A Shutdown that returns the meter provider's error without going on to
\* the tracer provider.
ShutdownCallMeterError(deadline, meterErr) ==
    /\ shutdown.pc = "none"
    /\ instruments' = IF instruments = "live" THEN "closed" ELSE instruments
    /\ IF instruments = "live" /\ meterErr
       THEN /\ shutdown' = [pc |-> "returned", deadline |-> deadline, meterErr |-> TRUE]
            /\ shutdownErr' = "meter"
            /\ UNCHANGED stopped
       ELSE IF tracerProvider.installed
       THEN /\ shutdown' = [pc |-> "waiting", deadline |-> deadline, meterErr |-> FALSE]
            /\ stopped' = TRUE
            /\ UNCHANGED shutdownErr
       ELSE /\ shutdown' = [pc |-> "returned", deadline |-> deadline, meterErr |-> FALSE]
            /\ shutdownErr' = "nil"
            /\ UNCHANGED stopped
    /\ UNCHANGED <<queue, batch, dropped, worker, resume, attempts, hist>>
    /\ UNCHANGED <<globalCfg, points, registry, call, logRec, exporter, sdkVars>>
    /\ UNCHANGED traceVars

\* Shutdown(ctx): first meterProvider.Shutdown(ctx), when a meter provider
\* is installed; then tracerProvider.Shutdown(ctx) -> the processor's
\* Shutdown: set stopped, close the stop channel, then wait for the worker
\* or for ctx (Handle.Shutdown always gives ctx a 5 s deadline).  The meter
\* provider's error is discarded; without tracer provider Shutdown returns
\* nil at once.
ShutdownCall(deadline, meterErr) ==
    /\ shutdown.pc = "none"
    /\ instruments' = IF instruments = "live" THEN "closed" ELSE instruments
    /\ IF tracerProvider.installed
       THEN /\ shutdown' = [pc |-> "waiting", deadline |-> deadline,
                            meterErr |-> instruments = "live" /\ meterErr]
            /\ stopped' = TRUE
            /\ UNCHANGED shutdownErr
       ELSE /\ shutdown' = [pc |-> "returned", deadline |-> deadline,
                            meterErr |-> instruments = "live" /\ meterErr]
            /\ shutdownErr' = "nil"
            /\ UNCHANGED stopped
    /\ UNCHANGED <<queue, batch, dropped, worker, resume, attempts, hist>>
    /\ UNCHANGED <<globalCfg, points, registry, call, logRec, exporter, sdkVars>>
    /\ UNCHANGED traceVars

ShutdownDrained ==
    /\ shutdown.pc = "waiting" /\ worker = "done"
    /\ shutdown' = [shutdown EXCEPT !.pc = "returned"]
    /\ shutdownErr' = "nil"
    /\ UNCHANGED <<queue, batch, dropped, stopped, worker, resume, attempts, hist>>
    /\ UNCHANGED <<traceVars, appVars>>

ShutdownDeadline ==
    /\ shutdown.pc = "waiting" /\ shutdown.deadline
    /\ shutdown' = [shutdown EXCEPT !.pc = "returned"]
    /\ shutdownErr' = "deadline"
    /\ hist' = [hist EXCEPT !.atDeadline = queue + batch]
    /\ UNCHANGED <<queue, batch, dropped, stopped, worker, resume, attempts>>
    /\ UNCHANGED <<traceVars, appVars>>

\* A process after Init with tracing enabled.
ExportInit ==
    /\ propagator = "w3c"
    /\ tracerProvider = Provider(DefaultRatio)
    /\ cur = Background
    /\ nspans = 0
    /\ bus = NoMsg
    /\ PipelineIdle
    /\ globalCfg = [ExampleConfig EXCEPT !.Sampler = "parent"]
    /\ call = [NoCall EXCEPT !.op = "Init", !.res = "nil"]
    /\ exporter = parseEndpoint(Bytes[ExampleConfig.CollectorEndpoint])
    /\ instruments = "nil" /\ points = {} /\ registry = [n \in {} |-> {}] /\ logRec = NoRecord
    /\ SdkIdle

ExportNext ==
    \/ \E sampled \in BOOLEAN : OnEnd(sampled)
    \/ WorkerReceive
    \/ WorkerTimer
    \/ WorkerStop
    \/ DrainReceive
    \/ DrainFinal
    \/ ExportAck
    \/ \E retryable \in BOOLEAN : ExportFail(retryable)
    \/ \E deadline \in BOOLEAN, meterErr \in BOOLEAN : ShutdownCall(deadline, meterErr)
    \/ ShutdownDrained
    \/ ShutdownDeadline

SpecExport == ExportInit /\ [][ExportNext]_vars

\* A process that calls Init, with every choice of what to enable and of the
\* trace protocol, and Shutdown, before or after Init; its one goroutine
\* calls Init again only after Shutdown has returned.
InitConfigs ==
    {[ExampleConfig EXCEPT !.EnableTracing = t, !.EnableMetrics = m, !.TraceProtocol = p] :
        t \in BOOLEAN, m \in BOOLEAN, p \in {"", "HTTP", "bogus"}}
InitNext ==
    \/ /\ shutdown.pc # "waiting"
       /\ \E cfg \in InitConfigs, err \in InitErrors :
              Init(cfg, err = "resource", err = "provider", err = "meter")
    \/ \E deadline \in BOOLEAN, meterErr \in BOOLEAN : ShutdownCall(deadline, meterErr)
    \/ WorkerStop
    \/ DrainFinal
    \/ ShutdownDrained
    \/ ShutdownDeadline
SpecInit == TraceInit /\ [][InitNext]_vars

\* ---------------------------------------------------------------- logging
\* Fields a caller hands to a logger, after the README's error example.
LogKeys == {"client_order_id", "secret_ref"}
LogValues == {"co_20250905_001", "aws-sm://ALPACA_SECRET#value"}
LogFields == UNION {[ks -> LogValues] : ks \in SUBSET LogKeys}

\* A logger that attaches the ids of whatever span context it finds.
TraceFieldsUnchecked(sc) ==
    [k \in {"trace_id", "span_id"} |->
        IF k = "trace_id" THEN HexEncode(sc.tid) ELSE HexEncode(sc.sid)]

\* trace_id and span_id as C and zapLogger.log attach them: the hex string of
\* each id, and only when sc.IsValid().
TraceFields(sc) ==
    [k \in IF IsValid(sc) THEN {"trace_id", "span_id"} ELSE {} |->
        IF k = "trace_id" THEN HexEncode(sc.tid) ELSE HexEncode(sc.sid)]

\* What a logger writes for a call with context ctx and fields kv: the ids
\* it attaches and the caller's fields, as they were passed (the service,
\* env and service_version fields repeat the configuration and are left
\* out).  A logger that was never set up is set up by L on first use.
WriteRecord(logger, ctx, kv) ==
    /\ logRec' = [logger |-> logger, sc |-> ctx.sc, ids |-> TraceFields(ctx.sc), kv |-> kv]
    /\ call' = [op |-> logger, metric |-> "", labels |-> NoLabels, res |-> "ok"]
    /\ UNCHANGED <<globalCfg, instruments, points, registry, exporter, sdkVars>>
    /\ UNCHANGED <<traceVars, exportVars>>

\* C(ctx).Info(msg, kv...) of go/ampyobs.
C(ctx, kv) == WriteRecord("C", ctx, kv)

\* Logger.Info(ctx, msg, kv...) of sdk/go/ampyobs.
zapLogger_log(ctx, kv) == WriteRecord("zapLogger.log", ctx, kv)

\* A process that starts spans and logs.
LogNext ==
    \/ \E err \in InitErrors :
           Init(ExampleConfig, err = "resource", err = "provider", err = "meter")
    \/ \E parent \in Parents, name \in SpanNames, newTid \in TraceIDs :
           StartSpan(parent, name, newTid)
    \/ \E ctx \in Parents, kv \in LogFields : C(ctx, kv)
    \/ \E ctx \in Parents, kv \in LogFields : zapLogger_log(ctx, kv)

SpecLog == TraceInit /\ [][LogNext]_vars

\* ---------------------------------------------------------------- metrics
OutcomeOK == "ok"
OutcomeRetry == "retry"
OutcomeDLQ == "dlq"
OutcomeReject == "reject"

\* Arguments callers hand to the recording helpers; an outcome is any string.
Topics == {"ampy.bars.v1"}
Brokers == {"alpaca"}
Reasons == {"risk_check"}
OutcomeArgs == {OutcomeOK, OutcomeReject, "timeout"}

\* instrument.Add / instrument.Record on one of the six instrument
\* variables: a method call on a nil interface value while initMetrics has
\* not run; afterwards a point with the attributes as passed (service and
\* env, which repeat the configuration, left out), which a meter provider
\* that was shut down no longer takes.
Record(op, name, attrs) ==
    /\ call' = [op |-> op, metric |-> name, labels |-> attrs,
                res |-> IF instruments = "nil" THEN "panic" ELSE "ok"]
    /\ points' = IF instruments = "live"
                 THEN points \cup {[metric |-> name, labels |-> attrs]}
                 ELSE points
    /\ UNCHANGED <<globalCfg, instruments, registry, logRec, exporter, sdkVars>>
    /\ UNCHANGED <<traceVars, exportVars>>

BusProducedAdd(topic) ==
    Record("BusProducedAdd", "ampy.bus.produced_total", [topic |-> topic])
BusConsumedAdd(topic) ==
    Record("BusConsumedAdd", "ampy.bus.consumed_total", [topic |-> topic])
BusDeliveryLatencyMs(topic) ==
    Record("BusDeliveryLatencyMs", "ampy.bus.delivery_latency_ms", [topic |-> topic])
OMSOrderSubmitAdd(broker, outcome) ==
    Record("OMSOrderSubmitAdd", "ampy.oms.order_submit_total",
           [broker |-> broker, outcome |-> outcome])
OMSOrderLatencyMs(broker) ==
    Record("OMSOrderLatencyMs", "ampy.oms.order_latency_ms", [broker |-> broker])
OMSRejectAdd(broker, reason) ==
    Record("OMSRejectAdd", "ampy.oms.rejections_total",
           [broker |-> broker, reason |-> reason])

\* Configurations of a process that records metrics.
MetricConfigs == {ZeroConfig, [ZeroConfig EXCEPT !.EnableMetrics = TRUE]}

MetricsNext ==
    \/ \E cfg \in MetricConfigs, err \in InitErrors :
           Init(cfg, err = "resource", err = "provider", err = "meter")
    \/ \E topic \in Topics : BusProducedAdd(topic)
    \/ \E topic \in Topics : BusConsumedAdd(topic)
    \/ \E topic \in Topics : BusDeliveryLatencyMs(topic)
    \/ \E broker \in Brokers, outcome \in OutcomeArgs : OMSOrderSubmitAdd(broker, outcome)
    \/ \E broker \in Brokers : OMSOrderLatencyMs(broker)
    \/ \E broker \in Brokers, reason \in Reasons : OMSRejectAdd(broker, reason)
    \/ \E deadline \in BOOLEAN, meterErr \in BOOLEAN : ShutdownCall(deadline, meterErr)

SpecMetrics == TraceInit /\ [][MetricsNext]_vars

\* ------------------------------------------------- Prometheus registry (sdk)
\* Metrics and label sets of the with-sdk demo, and the label the README
\* forbids.
MetricNames == {"requests_total", "request_latency_ms"}
DemoLabels ==
    [domain |-> "signals", outcome |-> "ok", reason |-> "none", client_order_id |-> "co_123"]
LabelSets ==
    {[k \in ks |-> DemoLabels[k]] :
        ks \in {{"domain"}, {"domain", "outcome", "reason"},
                {"domain", "outcome", "reason", "client_order_id"}}}

CounterLabels == {"domain", "outcome", "reason"}
HistogramLabels == {"domain"}
GaugeLabels == {"domain"}

\* m.reg.MustRegister(vec): Register refuses a name that is registered, and
\* MustRegister panics on what Register refuses.
MustRegister(op, name, keys) ==
    /\ call' = [op |-> op, metric |-> name, labels |-> NoLabels,
                res |-> IF name \in DOMAIN registry THEN "panic" ELSE "ok"]
    /\ registry' = IF name \in DOMAIN registry
                   THEN registry
                   ELSE [n \in DOMAIN registry \cup {name} |->
                            IF n = name THEN keys ELSE registry[n]]
    /\ UNCHANGED <<globalCfg, instruments, points, logRec, exporter, sdkVars>>
    /\ UNCHANGED <<traceVars, exportVars>>

NewCounter(name) == MustRegister("NewCounter", name, CounterLabels)
NewHistogram(name) == MustRegister("NewHistogram", name, HistogramLabels)
NewGauge(name) == MustRegister("NewGauge", name, GaugeLabels)

\* vec.With(labels).Inc() / .Observe() on a vector a New* call returned:
\* With panics unless labels has exactly the keys the vector was registered
\* with; otherwise the labelled series gets the point.
With(name, labels) ==
    /\ name \in DOMAIN registry
    /\ LET match == DOMAIN labels = registry[name]
       IN  /\ call' = [op |-> "With", metric |-> name, labels |-> labels,
                       res |-> IF match THEN "ok" ELSE "panic"]
           /\ points' = IF match
                        THEN points \cup {[metric |-> name, labels |-> labels]}
                        ELSE points
    /\ UNCHANGED <<globalCfg, instruments, registry, logRec, exporter, sdkVars>>
    /\ UNCHANGED <<traceVars, exportVars>>

RegistryNext ==
    \/ \E name \in MetricNames : NewCounter(name)
    \/ \E name \in MetricNames : NewHistogram(name)
    \/ \E name \in MetricNames : NewGauge(name)
    \/ \E name \in MetricNames, labels \in LabelSets : With(name, labels)

SpecRegistry == TraceInit /\ [][RegistryNext]_vars

\* ------------------------------ sdk/go/ampyobs: loggers, contexts, middleware
\* A []zap.Field is a slice: a backing array of heap (0: none) and a length;
\* its capacity is the length of the array.
EmptySlice == [arr |-> 0, len |-> 0]
Elems(h, s) == [i \in 1..s.len |-> h[s.arr][i]]

\* append(s, elems...): in place when the capacity suffices, otherwise into
\* a new array of twice the capacity, or of the length needed when that is
\* more.  The result is the heap and the slice returned.
append(h, s, elems) ==
    LET need == s.len + Len(elems)
        cap == IF s.arr = 0 THEN 0 ELSE Len(h[s.arr])
    IN  IF need <= cap
        THEN [heap |-> IF Len(elems) = 0 THEN h
                       ELSE [h EXCEPT ![s.arr] =
                               [i \in 1..cap |->
                                   IF i > s.len /\ i <= need THEN elems[i - s.len] ELSE @[i]]],
              slice |-> [arr |-> s.arr, len |-> need]]
        ELSE LET newcap == IF need > 2 * cap THEN need ELSE 2 * cap
                 cells == [i \in 1..newcap |->
                              IF i <= s.len THEN h[s.arr][i]
                              ELSE IF i <= need THEN elems[i - s.len]
                              ELSE zapString("", "")]
             IN  [heap |-> Append(h, cells), slice |-> [arr |-> Len(h) + 1, len |-> need]]

\* newLogger: the static fields of the Handle's logger.
RootMeta ==
    <<zapString("service", "ampy-oms"), zapString("env", "dev"),
      zapString("service_version", "1.0.0")>>

\* context.WithValue and Context.Value over the contexts made so far: Value
\* answers the value of the nearest context on the way to Background that
\* was made with the key.
DomainKey == "domainKey"
WithValue(cs, parent, key, dc, sc) ==
    Append(cs, [parent |-> parent, key |-> key, dc |-> dc, sc |-> sc])

RECURSIVE ValueOutermost(_, _, _)
\* A lookup that answers the value nearest to Background.
ValueOutermost(cs, c, key) ==
    IF c = 0 THEN [found |-> FALSE, dc |-> ZeroDomainContext, sc |-> EmptySC]
    ELSE LET up == ValueOutermost(cs, cs[c].parent, key)
         IN  IF up.found THEN up
             ELSE IF cs[c].key = key THEN [found |-> TRUE, dc |-> cs[c].dc, sc |-> cs[c].sc]
             ELSE up

RECURSIVE Value(_, _, _)
Value(cs, c, key) ==
    IF c = 0 THEN [found |-> FALSE, dc |-> ZeroDomainContext, sc |-> EmptySC]
    ELSE IF cs[c].key = key THEN [found |-> TRUE, dc |-> cs[c].dc, sc |-> cs[c].sc]
    ELSE Value(cs, cs[c].parent, key)

FromDomainContext(cs, c) ==
    LET v == Value(cs, c, DomainKey)
    IN  IF ~v.found THEN [dc |-> ZeroDomainContext, ok |-> FALSE]
        ELSE [dc |-> v.dc, ok |-> TRUE]

\* trace.SpanContextFromContext.
SpanContextFromContext(cs, c) ==
    LET v == Value(cs, c, "currentSpanKey")
    IN  IF v.found THEN v.sc ELSE EmptySC

\* DomainContext.toZapFields: the non-empty fields, in the order of the
\* struct.
ZapKeys == <<"run_id", "as_of", "universe_id", "message_id", "client_order_id", "symbol", "mic">>
toZapFields(d) ==
    SelectSeq([i \in 1..Len(DomainFields) |-> zapString(ZapKeys[i], d[DomainFields[i]])],
              LAMBDA f : f.String # "")

\* The body of zapLogger.log up to the call of zap: a copy of meta, the ids
\* of a valid span context, the domain fields, the caller's fields.  The
\* result is the fields handed to zap and the heap without the arrays of
\* the local slice.
logFields(h, cs, l, c, kv) ==
    LET f0 == append(h, EmptySlice, Elems(h, l.meta))
        sc == SpanContextFromContext(cs, c)
        f1 == IF IsValid(sc)
              THEN append(f0.heap, f0.slice,
                          <<zapHexString("trace_id", sc.tid), zapHexString("span_id", sc.sid)>>)
              ELSE f0
        d == FromDomainContext(cs, c)
        f2 == IF d.ok THEN append(f1.heap, f1.slice, toZapFields(d.dc)) ELSE f1
        f3 == append(f2.heap, f2.slice, kv)
    IN  [heap |-> SubSeq(f3.heap, 1, Len(h)), fields |-> Elems(f3.heap, f3.slice)]

\* A With that appends to the receiver's meta itself.
WithShared(l, kv) ==
    /\ l \in 1..Len(loggers) /\ Len(loggers) < MaxLoggers
    /\ LET a == append(heap, loggers[l].meta, kv)
       IN  /\ heap' = a.heap
           /\ loggers' = Append(loggers, [meta |-> a.slice, parent |-> l, own |-> kv])
    /\ UNCHANGED <<ctxs, written, served>>
    /\ UNCHANGED <<globalCfg, instruments, points, registry, call, logRec, exporter>>
    /\ UNCHANGED <<traceVars, exportVars>>

\* zapLogger.With: a new logger whose meta is a copy of the receiver's meta
\* followed by kv.
zapLogger_With(l, kv) ==
    /\ l \in 1..Len(loggers) /\ Len(loggers) < MaxLoggers
    /\ LET copy == append(heap, EmptySlice, Elems(heap, loggers[l].meta))
           a == append(copy.heap, copy.slice, kv)
       IN  /\ heap' = a.heap
           /\ loggers' = Append(loggers, [meta |-> a.slice, parent |-> l, own |-> kv])
    /\ UNCHANGED <<ctxs, written, served>>
    /\ UNCHANGED <<globalCfg, instruments, points, registry, call, logRec, exporter>>
    /\ UNCHANGED <<traceVars, exportVars>>

\* Logger.Info(ctx, msg, kv...) on logger l with context c.
zapLogger_Info(l, c, kv) ==
    /\ l \in 1..Len(loggers) /\ c \in 0..Len(ctxs)
    /\ LET r == logFields(heap, ctxs, loggers[l], c, kv)
       IN  /\ heap' = r.heap
           /\ written' = [logger |-> l, ctx |-> c, fields |-> r.fields, kv |-> kv]
    /\ UNCHANGED <<loggers, ctxs, served>>
    /\ UNCHANGED <<globalCfg, instruments, points, registry, call, logRec, exporter>>
    /\ UNCHANGED <<traceVars, exportVars>>

WithDomainContext(c, dc) ==
    /\ c \in 0..Len(ctxs) /\ Len(ctxs) < MaxCtxs
    /\ ctxs' = WithValue(ctxs, c, DomainKey, dc, EmptySC)
    /\ UNCHANGED <<heap, loggers, written, served>>
    /\ UNCHANGED <<globalCfg, instruments, points, registry, call, logRec, exporter>>
    /\ UNCHANGED <<traceVars, exportVars>>

\* respWriter: status is 200 until WriteHeader is called, then the code of
\* the call.
respWriter_WriteHeader(status, code) == code
RECURSIVE HandlerStatus(_, _)
HandlerStatus(status, codes) ==
    IF codes = <<>> THEN status
    ELSE HandlerStatus(respWriter_WriteHeader(status, Head(codes)), Tail(codes))

\* A middleware that logs with the context the propagator returned.
MiddlewareLogContextExtracted(extracted, spanCtx) == extracted

\* The context the middleware hands to Logger.Info: the one tr.Start
\* returned.
MiddlewareLogContext(extracted, spanCtx) == spanCtx

\* The handler HTTPServerMiddleware returns, for a request with headers
\* hdr whose inner handler calls WriteHeader with codes in turn: Extract
\* into the request's context (Background), Start of the server span, the
\* inner handler, the http.request record (of its fields status is kept),
\* and the deferred span.End().
HTTPServerMiddleware(hdr, codes, newTid) ==
    /\ nspans < MaxSpans /\ Len(ctxs) + 2 <= MaxCtxs /\ Len(loggers) >= 1
    /\ \E remote \in {PropagatorExtract(propagator, EmptySC, hdr)} :
       \E cs1 \in {IF IsValid(remote)
                   THEN WithValue(ctxs, 0, "currentSpanKey", ZeroDomainContext, remote)
                   ELSE ctxs} :
       \E extracted \in {IF IsValid(remote) THEN Len(cs1) ELSE 0} :
       \E sc \in {NewSpanContext(SpanContextFromContext(cs1, extracted), newTid)} :
       \E cs2 \in {WithValue(cs1, extracted, "currentSpanKey", ZeroDomainContext, sc)} :
       \E status \in {HandlerStatus(200, codes)} :
       \E logCtx \in {MiddlewareLogContext(extracted, Len(cs2))} :
       \E r \in {logFields(heap, cs2, loggers[1], logCtx, <<F("status", status)>>)} :
           /\ ctxs' = cs2
           /\ nspans' = nspans + 1
           /\ heap' = r.heap
           /\ written' = [logger |-> 1, ctx |-> logCtx, fields |-> r.fields,
                          kv |-> <<F("status", status)>>]
           /\ served' = [hdr |-> hdr, codes |-> codes, extracted |-> extracted,
                         ctx |-> Len(cs2)]
           /\ SpanEnd(sc.sampled)
    /\ UNCHANGED <<propagator, tracerProvider, cur, bus>>
    /\ UNCHANGED loggers
    /\ UNCHANGED <<globalCfg, instruments, points, registry, call, logRec, exporter>>

\* A process after Init of sdk/go/ampyobs returned a Handle: the W3C
\* propagator, a tracer provider with the default sampler, the Handle's
\* logger.
SdkInit ==
    /\ propagator = "w3c"
    /\ tracerProvider = Provider(4)
    /\ cur = Background
    /\ nspans = 0
    /\ bus = NoMsg
    /\ PipelineIdle
    /\ globalCfg = ZeroConfig /\ instruments = "nil"
    /\ points = {} /\ registry = [n \in {} |-> {}] /\ call = NoCall /\ logRec = NoRecord
    /\ exporter = NoExporter
    /\ heap = <<RootMeta>>
    /\ loggers = <<[meta |-> [arr |-> 1, len |-> Len(RootMeta)], parent |-> 0, own |-> RootMeta]>>
    /\ ctxs = <<>>
    /\ written = NoWritten /\ served = NoServed

\* Fields callers give to With and to Info.
WithFields == {<<>>, <<zapString("component", "oms")>>, <<zapString("component", "md")>>}
InfoFields == {<<>>, <<zapString("event", "fill")>>}
DomainContexts ==
    {[ZeroDomainContext EXCEPT !.RunID = r, !.Symbol = sym] :
        r \in {"", "run_1"}, sym \in {"", "AAPL"}}

\* Requests: without traceparent, or with the traceparent of a remote span,
\* whole or truncated; the inner handler calls WriteHeader up to twice.
RemoteParents ==
    {[tid |-> MkTraceID(12), sid |-> MkSpanID(9), sampled |-> b, remote |-> TRUE] : b \in BOOLEAN}
RequestHeaders ==
    {EmptyHeaders} \cup
    {Mangle(kind, CarrierSet(EmptyHeaders, HeaderTraceParent, FormatTraceparent(sc))) :
        sc \in RemoteParents, kind \in {"intact", "truncated"}}
HandlerCalls ==
    {<<>>} \cup {<<a>> : a \in {200, 500}} \cup {<<a, b>> : a \in {200, 500}, b \in {200, 500}}

\* Loggers derived from the Handle's logger, and records written with them.
LoggerNext ==
    \/ \E l \in 1..MaxLoggers, kv \in WithFields : zapLogger_With(l, kv)
    \/ \E l \in 1..MaxLoggers, kv \in InfoFields : zapLogger_Info(l, 0, kv)
SpecLoggers == SdkInit /\ [][LoggerNext]_vars

\* Contexts that carry a DomainContext, and records written with them.
DomainNext ==
    \/ \E c \in 0..MaxCtxs, dc \in DomainContexts : WithDomainContext(c, dc)
    \/ \E c \in 0..MaxCtxs, kv \in InfoFields : zapLogger_Info(1, c, kv)
SpecDomain == SdkInit /\ [][DomainNext]_vars

\* A server behind the middleware.
HTTPNext ==
    \/ \E hdr \in RequestHeaders, codes \in HandlerCalls, newTid \in TraceIDs :
           HTTPServerMiddleware(hdr, codes, newTid)
    \/ \E c \in 0..MaxCtxs : zapLogger_Info(1, c, <<>>)
SpecHTTP == SdkInit /\ [][HTTPNext]_vars

\* ----------------------------------------------------------- propagation
\* C1: round trip.  A context with a valid span context exists only in a
\* process whose propagator Init has installed; whenever such a process
\* hands ExtractTrace the untouched header map InjectTrace wrote for a valid
\* span context, the context returned carries the injected trace id, span id
\* and sampled flag.
RoundTrip ==
    /\ IsValid(cur.sc) => propagator = "w3c"
    /\ (cur.via.op = "extract" /\ cur.via.prop = "w3c" /\ cur.via.kind = "intact"
            /\ IsValid(cur.via.src))
       => /\ cur.sc.tid = cur.via.src.tid
          /\ cur.sc.sid = cur.via.src.sid
          /\ cur.sc.sampled = cur.via.src.sampled

RoundTripWitness ==
    /\ cur.via.op = "extract" /\ cur.via.prop = "w3c" /\ cur.via.kind = "intact"
    /\ IsValid(cur.via.src) /\ cur.via.src.sampled
    /\ cur.sc.sampled /\ cur.sc.sid = cur.via.src.sid
    /\ cur.via.arg # cur.via.src

TraceIdPreserved ==
    /\ IsValid(cur.sc) => cur.sc.tid = cur.origin.tid
    /\ (cur.name = "bus.consume" /\ cur.via.kind = "intact" /\ IsValid(cur.via.src))
       => cur.parent = cur.via.src.sid /\ cur.sc.tid = cur.via.src.tid

TraceIdPreservedWitness ==
    /\ cur.name = "bus.consume" /\ cur.via.kind = "intact"
    /\ cur.via.srcName = "bus.publish" /\ cur.parent = cur.via.src.sid
    /\ cur.origin.hops >= 1 /\ cur.origin.ratio # tracerProvider.ratio
    /\ cur.sc.tid = cur.origin.tid /\ cur.sc.sid # cur.parent

\* -------------------------------------------------------------- sampling
\* C4: when the root of a chain was started under ratio 0.0, no context of
\* the chain, the root or any descendant across any number of bus hops and
\* whatever ratio the process it runs in is configured with, is marked
\* sampled (the code has no override class, so there is no exception).
NoneSampledAtZero ==
    (IsValid(cur.sc) /\ cur.origin.ratio = 0) => ~cur.sc.sampled

NoneSampledAtZeroWitness ==
    /\ cur.name = "bus.consume" /\ cur.via.kind = "intact"
    /\ cur.origin.ratio = 0 /\ cur.origin.hops = MaxHops
    /\ tracerProvider.ratio = 4 /\ ~cur.sc.sampled

\* C5: when the root of a chain was started under ratio 1.0, the root and
\* every descendant across any number of bus hops is marked sampled.
AllSampledAtOne ==
    (IsValid(cur.sc) /\ cur.origin.ratio = 4) => cur.sc.sampled

AllSampledAtOneWitness ==
    /\ cur.name = "bus.consume" /\ cur.via.kind = "intact"
    /\ cur.origin.ratio = 4 /\ cur.origin.hops = MaxHops
    /\ cur.origin.tid = MkTraceID(12)
    /\ tracerProvider.ratio = 0 /\ cur.sc.sampled

\* C6: every context of a chain carries the sampled flag its root was
\* given, in the root's process or after bus hops into processes with
\* another ratio, and a span whose parent was not sampled is not sampled.
InheritsRootDecision ==
    /\ IsValid(cur.sc) => cur.sc.sampled = cur.origin.sampled
    /\ (cur.name # "" /\ IsValid(cur.via.psc) /\ ~cur.via.psc.sampled) => ~cur.sc.sampled

InheritsRootDecisionWitness ==
    /\ cur.name = "bus.consume" /\ cur.via.kind = "intact"
    /\ cur.origin.ratio = DefaultRatio /\ cur.origin.sampled /\ cur.origin.hops >= 1
    /\ tracerProvider.ratio = 0 /\ cur.sc.sampled /\ cur.via.psc.remote

\* C7 as stated: a span of the override class (an order rejection, a
\* dead-letter event) is marked sampled whatever the ratio decided and
\* whatever its parent's decision was.
OverrideForcesSampled ==
    (cur.name \in OverrideNames) => cur.sc.sampled

\* ---------------------------------------------------------------- export
\* C8: the drop counter equals the number of sampled spans that were ended
\* while the queue was full; every offered span is in the queue, taken by
\* the worker or counted as dropped, so with a worker that takes nothing the
\* counter is exactly the excess over the queue's capacity; and ending a
\* span is possible in every state, whatever the queue and the exporter do.
DropCounterExact ==
    /\ CounterOf("dropped") = hist.fullArrivals
    /\ hist.offered = queue + hist.taken + dropped
    /\ hist.taken = 0 => dropped = (IF hist.offered > QueueCap THEN hist.offered - QueueCap ELSE 0)
    /\ queue <= QueueCap
    /\ hist.ended < MaxEnds => ENABLED OnEnd(TRUE)

DropCounterExactWitness ==
    /\ worker = "export" /\ attempts >= 1 /\ ~stopped
    /\ queue = QueueCap /\ dropped >= 1 /\ hist.exported = 0
    /\ hist.offered = QueueCap + BatchSize + dropped

\* C9 as stated: a counter export_fail_total has gone up by one for every
\* batch given up after its retries.
ExportFailCounted ==
    CounterOf("export_fail_total") = hist.failedBatches

\* C10 as stated: when Shutdown has returned at its deadline, the spans that
\* were still buffered at that moment have been counted as dropped.
DeadlineLeftoversCounted ==
    (shutdown.pc = "returned" /\ shutdownErr = "deadline")
    => CounterOf("dropped") = hist.fullArrivals + hist.atDeadline

\* --------------------------------------------------------------- redaction
\* C11 as stated: a log field whose key matches a redaction pattern
\* (secret_ref) never reaches the log output with a value as the caller
\* passed it; the record holds the redaction marker in its place.
SecretsRedacted ==
    \A k \in DOMAIN logRec.kv : k = "secret_ref" => logRec.kv[k] \notin LogValues

\* ------------------------------------------------------------------ labels
\* C12 as stated: a recording whose label map has a key beyond the keys the
\* metric was registered with (client_order_id) is not rejected: the call
\* returns and the point is kept under the registered keys alone.
ExtraLabelKeyDropped ==
    (/\ call.op = "With"
     /\ registry[call.metric] \subseteq DOMAIN call.labels
     /\ registry[call.metric] # DOMAIN call.labels)
    => /\ call.res = "ok"
       /\ [metric |-> call.metric,
           labels |-> [k \in registry[call.metric] |-> call.labels[k]]] \in points

\* C13 as stated: no recording helper, registration or log call panics in
\* its caller, whatever the process has done before: nothing, Init without
\* metrics, Shutdown, or a registration of the same name.
NeverPanics == call.res # "panic"

InjectGeneratesRoot ==
    (bus.sent /\ ~IsValid(bus.sc))
    => /\ HeaderTraceParent \in DOMAIN bus.hdr
       /\ IsValid(ParseTraceparent(CarrierGet(bus.hdr, HeaderTraceParent)))

\* C16 as stated: every outcome label of every recorded point is one of the
\* enumerated outcomes or the "other" bucket.
LabelValuesEnumerated ==
    \A p \in points :
        "outcome" \in DOMAIN p.labels =>
            p.labels["outcome"] \in {OutcomeOK, OutcomeRetry, OutcomeDLQ, OutcomeReject, "other"}

BufferBounded ==
    /\ queue \in 0..QueueCap
    /\ batch \in 0..BatchSize

BufferBoundedWitness ==
    /\ queue = QueueCap /\ batch >= 1
    /\ hist.taken >= 1 /\ hist.fullArrivals >= 1
    /\ hist.ended = hist.offered

BatchHandover ==
    /\ [](batch <= BatchSize /\ (batch = BatchSize => worker = "export"))
    /\ [][(worker # "export" /\ worker' = "export") =>
            /\ batch' \in 1..BatchSize
            /\ \/ batch' = BatchSize /\ batch' = batch + 1 /\ worker \in {"run", "drain"}
               \/ worker = "run" /\ batch' = batch /\ batch < BatchSize
               \/ worker = "drain" /\ stopped /\ queue = 0 /\ batch' = batch]_vars

BatchHandoverWitness ==
    /\ worker = "export" /\ resume = "run" /\ ~stopped
    /\ batch \in 1..(BatchSize - 1)
    /\ hist.exported = BatchSize

\* C22 as stated: every span offered to the queue is in the queue, in the
\* batch, exported, or counted as dropped.
EveryRecordAccounted ==
    hist.offered = queue + batch + hist.exported + CounterOf("dropped")

\* C23: the count of failed attempts belongs to the export in progress: it
\* is zero whenever no export is in progress and when one starts, grows by
\* one per failed attempt on the same batch, and never reaches MaxAttempts,
\* whether the batch before was acknowledged or given up; while fewer than
\* MaxAttempts - 1 attempts have failed, a retryable failure keeps the batch.
RetryPerBatch ==
    /\ [](attempts \in 0..(MaxAttempts - 1) /\ (worker # "export" => attempts = 0))
    /\ []((worker = "export" /\ attempts + 1 < MaxAttempts) =>
             ENABLED (ExportFail(TRUE) /\ worker' = "export" /\ batch' = batch))
    /\ [][(worker # "export" /\ worker' = "export") => attempts' = 0]_vars
    /\ [][(worker = "export" /\ worker' = "export") =>
            batch' = batch /\ attempts' \in {attempts, attempts + 1}]_vars

RetryPerBatchWitness ==
    /\ hist.failedBatches >= 1 /\ hist.lost >= 1
    /\ worker = "export" /\ attempts = MaxAttempts - 1
    /\ batch >= 1

\* C24 as stated: after Init installed a tracer provider, the exporter's
\* address is "localhost:4317" without TLS for the empty endpoint, the
\* endpoint itself without TLS for a scheme-less "host:port" or host,
\* "localhost:port" for ":port", and the host of the URL for an endpoint with
\* a scheme, without TLS exactly when the scheme is "http".
EndpointAsDocumented ==
    LET raw == globalCfg.CollectorEndpoint
        documented ==
            CASE raw \in {"", ":4317", "http://localhost:4317"} ->
                    [hostport |-> Bytes["localhost:4317"], insecure |-> TRUE]
              [] raw = "https://collector:4317" ->
                    [hostport |-> Slice(Bytes[raw], 9, Len(Bytes[raw])), insecure |-> FALSE]
              [] OTHER -> [hostport |-> Bytes[raw], insecure |-> TRUE]
    IN  (call.op = "Init" /\ call.res = "nil" /\ globalCfg.EnableTracing) =>
            exporter = documented

\* C25: Init with EnableTracing and a TraceProtocol that is none of "",
\* "grpc" and "http" in any case returns the "unsupported trace protocol"
\* error, and returns it for no other configuration; the call that
\* returns it leaves the tracer provider, the exporter and the metric
\* instruments as they were.
UnsupportedProtocol ==
    /\ []((call.op = "Init" /\ call.res # "resource") =>
            (call.res = "unsupported trace protocol" <=>
                /\ globalCfg.EnableTracing
                /\ globalCfg.TraceProtocol \notin {"", "grpc", "GRPC", "http", "HTTP"}))
    /\ [][(call'.op = "Init" /\ call'.res = "unsupported trace protocol"
            /\ shutdown' = shutdown) =>
              /\ tracerProvider' = tracerProvider
              /\ exporter' = exporter
              /\ instruments' = instruments]_vars

UnsupportedProtocolWitness ==
    /\ call.op = "Init" /\ call.res = "unsupported trace protocol"
    /\ globalCfg.EnableMetrics /\ globalCfg.TraceProtocol = "bogus"
    /\ instruments = "nil"
    /\ ~tracerProvider.installed

InitNotAtomic ==
    /\ []((call.op = "Init"
            /\ call.res \in {"meter", "exporter", "unsupported trace protocol"}) =>
              /\ propagator = "w3c"
              /\ call.res = "meter" => globalCfg.EnableMetrics
              /\ call.res # "meter" => globalCfg.EnableTracing
              /\ (call.res = "meter" /\ globalCfg.EnableTracing) =>
                    /\ tracerProvider = Provider(SamplerRatio(globalCfg))
                    /\ exporter = parseEndpoint(Bytes[globalCfg.CollectorEndpoint]))
    /\ [][(call'.op = "Init" /\ shutdown' = shutdown) =>
            /\ ~globalCfg'.EnableTracing => tracerProvider' = tracerProvider
            /\ ~globalCfg'.EnableMetrics => instruments' = instruments]_vars

InitNotAtomicWitness ==
    /\ call.op = "Init" /\ call.res = "meter"
    /\ globalCfg.EnableTracing /\ globalCfg.EnableMetrics
    /\ propagator = "w3c"
    /\ tracerProvider.installed
    /\ instruments = "nil"

\* C28: the http.request record of the last request served carries, in
\* this order, the trace_id and span_id of the server span the middleware
\* started for the request; for a request with the intact traceparent of a
\* remote span the trace_id is the remote trace id, the span_id is not the
\* remote span id, and the server span is a child of the extracted
\* context; status is the code of the inner handler's last WriteHeader
\* call, or 200 when it made none.
HttpRequestRecord ==
    (written.kv # <<>>) =>
        LET span == ctxs[served.ctx].sc
            ids == SelectSeq(written.fields, LAMBDA f : f.Key \in {"trace_id", "span_id"})
            st == SelectSeq(written.fields, LAMBDA f : f.Key = "status")
        IN  /\ Len(ids) = 2 /\ ids[1].Key = "trace_id" /\ ids[2].Key = "span_id"
            /\ ids[1].Hex = HexEncode(span.tid)
            /\ ids[2].Hex = HexEncode(span.sid)
            /\ \A p \in RemoteParents :
                  served.hdr = CarrierSet(EmptyHeaders, HeaderTraceParent, FormatTraceparent(p)) =>
                      /\ ids[1].Hex = HexEncode(p.tid)
                      /\ ids[2].Hex # HexEncode(p.sid)
                      /\ served.extracted # 0
                      /\ ctxs[served.ctx].parent = served.extracted
                      /\ ctxs[served.extracted].sc.sid = p.sid
            /\ Len(st) = 1 /\ st[1].Type = "Int64"
            /\ st[1].Integer = IF served.codes = <<>> THEN 200
                               ELSE served.codes[Len(served.codes)]

HttpRequestRecordWitness ==
    /\ written.kv # <<>>
    /\ served.codes = <<500, 200>>
    /\ served.extracted # 0
    /\ \E p \in RemoteParents :
          served.hdr = CarrierSet(EmptyHeaders, HeaderTraceParent, FormatTraceparent(p))

\* C29: FromDomainContext on a context made by WithDomainContext answers
\* the DomainContext it was made with and true, whatever its parent
\* carries, and on Background the zero value and false; contexts never
\* change once made; the record written with such a context carries, of
\* the domain keys, exactly the non-empty fields of its DomainContext, once
\* each, in the order of the struct.
DomainRoundTrip ==
    /\ [](/\ FromDomainContext(ctxs, 0) = [dc |-> ZeroDomainContext, ok |-> FALSE]
          /\ \A c \in 1..Len(ctxs) :
                ctxs[c].key = DomainKey =>
                    FromDomainContext(ctxs, c) = [dc |-> ctxs[c].dc, ok |-> TRUE]
          /\ written.logger # 0 =>
                LET d == IF written.ctx = 0 THEN ZeroDomainContext ELSE ctxs[written.ctx].dc
                    keys == {ZapKeys[i] : i \in 1..Len(ZapKeys)}
                    dom == SelectSeq(written.fields, LAMBDA f : f.Key \in keys)
                    set == {i \in 1..Len(DomainFields) : d[DomainFields[i]] # ""}
                IN  /\ Len(dom) = Cardinality(set)
                    /\ \A i \in set :
                          \E j \in 1..Len(dom) :
                              /\ dom[j] = zapString(ZapKeys[i], d[DomainFields[i]])
                              /\ j = Cardinality({k \in set : k <= i}))
    /\ [][\A c \in 1..Len(ctxs) : ctxs'[c] = ctxs[c]]_vars

DomainRoundTripWitness ==
    /\ Len(ctxs) >= 2 /\ ctxs[2].parent = 1
    /\ ctxs[1].dc.RunID # "" /\ ctxs[2].dc.RunID = "" /\ ctxs[2].dc.Symbol # ""
    /\ written.logger # 0 /\ written.ctx = 2

\* C30: the meta of every logger is the meta of the logger With was called
\* on followed by the fields With was given (the Handle's logger: the three
\* static fields); no With or log call changes a logger that exists; a
\* record written without span and domain context is the meta of its logger
\* followed by the caller's fields.
MetaNeverShared ==
    /\ [](/\ \A l \in 1..Len(loggers) :
                Elems(heap, loggers[l].meta) =
                    IF loggers[l].parent = 0 THEN RootMeta
                    ELSE Elems(heap, loggers[loggers[l].parent].meta) \o loggers[l].own
          /\ (written.logger # 0 /\ written.ctx = 0) =>
                written.fields = Elems(heap, loggers[written.logger].meta) \o written.kv)
    /\ [][\A l \in 1..Len(loggers) :
            /\ loggers'[l] = loggers[l]
            /\ Elems(heap', loggers'[l].meta) = Elems(heap, loggers[l].meta)]_vars

MetaNeverSharedWitness ==
    /\ Len(loggers) = 4
    /\ loggers[2].parent = 1 /\ loggers[3].parent = 2 /\ loggers[4].parent = 2
    /\ loggers[2].own # <<>> /\ loggers[3].own # <<>> /\ loggers[4].own # <<>>
    /\ loggers[3].own # loggers[4].own
    /\ written.logger = 3 /\ written.kv # <<>>

====
